---- MODULE Spec2Model ----
(***************************************************************************)
(* A model of tpl01-lambda: the parser of src/parse.c, which builds the    *)
(* postfix AST, and the type solver and type printer of src/type.c.        *)
(* Source texts are sequences of byte codes; positions and node indexes    *)
(* are 0-based as in the C code.                                           *)
(***************************************************************************)
EXTENDS Integers, Sequences, FiniteSets, TLC

VARIABLES
    zsrc,   \* the source text handed to parse()
    pc,     \* where the run is: "start", "parsed", "solve", "print", "unparse",
            \* "done", and "died" (a DIE), "crashed" and "ub" (undefined behaviour)
    ast,    \* struct Ast
    ttree,  \* TypeTree: types[] and bindings[]
    k,      \* the loop index of solve_types, then of act_type
    unp,    \* Unparser: depth and stack[]
    todo,   \* the pending work of the nested unparse_type_ or unify calls, innermost first
    oot,    \* the bytes written on the current output line
    out     \* the output lines completed so far

vars == <<zsrc, pc, ast, ttree, k, unp, todo, oot, out>>

\* ------------------------------------------------------------------------
\* Bounds of the checked input families.

MaxLen == 5

\* ------------------------------------------------------------------------
\* Byte codes of the characters that matter to the parser.

NUL == 0
TAB == 9
NL == 10
SPC == 32
DOLLAR == SPC + 4
LPAREN == 40
RPAREN == 41
DIGIT0 == 48
DIGIT1 == DIGIT0 + 1
LBRACK == 91
RBRACK == 93
LETTER_a == 97
LETTER_x == LETTER_a + 23
LETTER_y == LETTER_a + 24
LETTER_z == LETTER_a + 25

NULL == -1
INT32_MAX == 2147483647
NTOKS == 26
MAX_TOKS == 26
MAX_DEPTH == 16
EQUALS == 61
LETTER_A == 65
LETTER_r == 114

\* A uint32_t is kept as the int32_t with the same bits (4294967295 is -1):
\* sums and differences of the small values met here then need no reduction,
\* and an unsigned comparison reads a negative value as a huge one.
UnsignedGt(u, v) == IF (u < 0) = (v < 0) THEN u > v ELSE u < 0

\* The byte at position z of a NUL terminated text.
CharAt(text, z) == IF z >= 0 /\ z < Len(text) THEN text[z + 1] ELSE NUL

\* ------------------------------------------------------------------------
\* The AST store (struct Ast).

ZeroNode == [type |-> "NONE", val |-> 0]

DIE(a, msg) == IF a.died = "" THEN [a EXCEPT !.died = msg] ELSE a

ast_root(a) == Len(a.nodes) - 1

ast_node_alloc(a, n) ==
    IF a.died # "" THEN a
    ELSE IF Len(a.nodes) + n > a.nnodes_alloced
         THEN DIE(a, "BUG: using more Ast nodes than are alloced")
         ELSE [a EXCEPT !.nodes = @ \o [i \in 1..n |-> ZeroNode]]

\* *pn = (AstNode){...} for the node ast_node_alloc(ast, 1) just returned.
set_last_node(a, node) ==
    IF a.died # "" THEN a
    ELSE [a EXCEPT !.nodes = [@ EXCEPT ![Len(@)] = node]]

add_syntax_error(a, zloc, msg) ==
    IF a.died # "" THEN a
    ELSE IF zloc > a.zsrc_len
         THEN DIE(a, "Creating error at invalid source loc")
         ELSE [a EXCEPT !.error = Append(@, [loc |-> zloc, msg |-> msg])]

\* ------------------------------------------------------------------------
\* The lexer.

RECURSIVE eat_white(_, _)
eat_white(text, z0) ==
    IF CharAt(text, z0) \in {SPC, TAB, NL} THEN eat_white(text, z0 + 1) ELSE z0

idx_from_letter(c) == (c - LETTER_a) % 256

idx_from_digit(c) == (c - DIGIT0) % 256

RECURSIVE skip_letters(_, _)
skip_letters(text, z) ==
    IF idx_from_letter(CharAt(text, z)) < 26 THEN skip_letters(text, z + 1) ELSE z

RECURSIVE skip_digits(_, _)
skip_digits(text, z) ==
    IF idx_from_digit(CharAt(text, z)) < 10 THEN skip_digits(text, z + 1) ELSE z

lex_varname(a, z0) ==
    LET idx == idx_from_letter(CharAt(a.zsrc, z0))
        z == z0 + 1
    IN  IF idx >= 26 THEN [ast |-> a, idx |-> -1, z |-> z0]
        ELSE IF idx_from_letter(CharAt(a.zsrc, z)) >= 26
             THEN [ast |-> a, idx |-> idx, z |-> z]
             ELSE [ast |-> add_syntax_error(a, z0, "Multi-byte varnames aren't allowed"),
                   idx |-> idx, z |-> skip_letters(a.zsrc, z)]

lex_int(a, z0) ==
    LET idx == idx_from_digit(CharAt(a.zsrc, z0))
        z == z0 + 1
    IN  IF idx >= 10 THEN [ast |-> a, idx |-> -1, z |-> z0]
        ELSE IF idx_from_digit(CharAt(a.zsrc, z)) >= 10
             THEN [ast |-> a, idx |-> idx, z |-> z]
             ELSE [ast |-> add_syntax_error(a, z0, "Multi-digit nums aren't allowed"),
                   idx |-> idx, z |-> skip_digits(a.zsrc, z)]

\* ------------------------------------------------------------------------
\* Node emission.

push_varname(a, token) ==
    IF token + LETTER_a > LETTER_z THEN DIE(a, "Bad token")
    ELSE set_last_node(ast_node_alloc(a, 1), [type |-> "VAR", val |-> token])

push_bound(a, depth) ==
    IF depth < 0 THEN DIE(a, "Bad depth")
    ELSE set_last_node(ast_node_alloc(a, 1), [type |-> "BOUND", val |-> depth])

push_var(a, token) ==
    IF a.died # "" THEN a
    ELSE IF token + LETTER_a > LETTER_z THEN DIE(a, "Bad token")
    ELSE LET bdepth == a.binding_depths[token]
         IN  IF bdepth # 0
             THEN push_bound(a, a.current_depth - bdepth)
             ELSE push_varname(a, token)

\* func = ast_root(ast) at the top of each round of parse_expr's call loop.
call_func_root_first(a) == 0
call_func_root(a) == ast_root(a)

\* arg_size = ast_root(ast) - func after the argument was parsed.
call_arg_size_one(root, func) == 1
call_arg_size_off(root, func) == root - func + 1
call_arg_size(root, func) == root - func

\* ------------------------------------------------------------------------
\* The recursive descent parser.  Every function returns the AST it leaves
\* and the position it returns (NULL for a null pointer); a function's code
\* after a call it makes is the operator that takes the call's result.

RECURSIVE parse_lambda(_, _)
RECURSIVE parse_non_call_expr(_, _)
RECURSIVE parse_expr(_, _)
RECURSIVE parse_expr_first(_, _, _)
RECURSIVE parse_expr_calls(_, _)

Dead(a) == [ast |-> a, z |-> NULL]

\* parse_lambda from the push of the bound name to its return.
parse_lambda_push(a3, token, zE) ==
    LET a5 == set_last_node(ast_node_alloc(push_varname(a3, token), 1),
                            [type |-> "LAMBDA", val |-> 0])
    IN  [ast |-> a5, z |-> IF a5.died # "" THEN NULL ELSE zE]

\* parse_lambda after the body was parsed into b.
parse_lambda_body(b, token, prev_bound, inner_depth, zbody) ==
    IF b.ast.died # "" THEN Dead(b.ast)
    ELSE IF b.z = NULL
         THEN [ast |-> add_syntax_error(b.ast, zbody, "Expected lambda body"), z |-> NULL]
    ELSE IF Len(b.ast.nodes) = 0 THEN Dead(DIE(b.ast, "Empty AST has no root"))
    ELSE parse_lambda_push(
             [b.ast EXCEPT
                 !.binding_depths =
                     IF token >= 0 THEN [@ EXCEPT ![token] = prev_bound] ELSE @,
                 !.current_depth = inner_depth - 1],
             token, b.z)

\* parse_lambda from the binding of the name on.
parse_lambda_bind(a1, token, zbody) ==
    IF a1.died # "" THEN Dead(a1)
    ELSE parse_lambda_body(
             parse_non_call_expr(
                 [a1 EXCEPT !.current_depth = a1.current_depth + 1,
                            !.binding_depths =
                                IF token >= 0
                                THEN [@ EXCEPT ![token] = a1.current_depth + 1]
                                ELSE @],
                 zbody),
             token,
             IF token >= 0 THEN a1.binding_depths[token] ELSE 0,
             a1.current_depth + 1,
             zbody)

\* parse_lambda after the name was lexed into l: the test for ']'.
parse_lambda_close(l, z0, zE) ==
    IF CharAt(l.ast.zsrc, zE) = RBRACK
    THEN parse_lambda_bind(l.ast, l.idx, zE + 1)
    ELSE parse_lambda_bind(add_syntax_error(l.ast, z0, "Lambda doesn't end in ']'"),
                           l.idx, zE)

parse_lambda_name(l, z0) == parse_lambda_close(l, z0, eat_white(l.ast.zsrc, l.z))

parse_lambda(a, z0) ==
    IF a.died # "" THEN Dead(a)
    ELSE IF CharAt(a.zsrc, z0) # LBRACK THEN Dead(DIE(a, "bad call to parse_lambda"))
    ELSE parse_lambda_name(lex_varname(a, eat_white(a.zsrc, z0 + 1)), z0)

\* parse_non_call_expr after parse_expr returned e for the text after '('.
parse_non_call_expr_paren(e, z0) ==
    IF e.ast.died # "" THEN Dead(e.ast)
    ELSE IF e.z = NULL \/ CharAt(e.ast.zsrc, e.z) # RPAREN
         THEN [ast |-> add_syntax_error(e.ast, z0, "Unmatched '('"), z |-> e.z]
         ELSE [ast |-> e.ast, z |-> e.z + 1]

\* parse_non_call_expr after lex_int returned d.
parse_non_call_expr_int(d, z0) ==
    IF d.ast.died # "" THEN Dead(d.ast)
    ELSE IF d.idx = 0
         THEN [ast |-> push_bound(add_syntax_error(d.ast, z0,
                                      "0 is an invalid debrujin index"), 0),
               z |-> d.z]
    ELSE IF d.idx > 0 THEN [ast |-> push_bound(d.ast, d.idx - 1), z |-> d.z]
    ELSE IF CharAt(d.ast.zsrc, z0) = LPAREN
         THEN parse_non_call_expr_paren(parse_expr(d.ast, z0 + 1), z0)
    ELSE IF CharAt(d.ast.zsrc, z0) = LBRACK THEN parse_lambda(d.ast, z0)
    ELSE [ast |-> d.ast, z |-> NULL]

\* parse_non_call_expr after lex_varname returned v.
parse_non_call_expr_var(v, z0) ==
    IF v.ast.died # "" THEN Dead(v.ast)
    ELSE IF v.idx >= 0 THEN [ast |-> push_var(v.ast, v.idx), z |-> v.z]
    ELSE parse_non_call_expr_int(lex_int(v.ast, z0), z0)

parse_non_call_expr(a, z0) ==
    IF a.died # "" THEN Dead(a)
    ELSE parse_non_call_expr_var(lex_varname(a, z0), z0)

\* The first loop of parse_expr, after a failed try at z1 left the AST a1.
parse_expr_first_skip(a1, z0, z1) ==
    IF a1.died # "" THEN Dead(a1)
    ELSE IF CharAt(a1.zsrc, z1) = NUL THEN [ast |-> a1, z |-> NULL]
    ELSE parse_expr_first(a1, z0, eat_white(a1.zsrc, z1 + 1))

\* The first loop of parse_expr, after parse_non_call_expr returned r at z1.
parse_expr_first_try(r, z0, z1) ==
    IF r.ast.died # "" THEN Dead(r.ast)
    ELSE IF r.z # NULL THEN parse_expr_calls(r.ast, r.z)
    ELSE IF r.ast.error = <<>>
         THEN parse_expr_first_skip(add_syntax_error(r.ast, z0, "Expected expr"), z0, z1)
         ELSE parse_expr_first_skip(r.ast, z0, z1)

\* The first loop of parse_expr: skip bytes until a non-call-expr parses.
parse_expr_first(a, z0, z1) == parse_expr_first_try(parse_non_call_expr(a, z1), z0, z1)

\* One round of the for (;;) loop after parse_non_call_expr returned r at z.
parse_expr_call(r, func, z) ==
    IF r.ast.died # "" THEN Dead(r.ast)
    ELSE IF r.z = NULL THEN [ast |-> r.ast, z |-> z]
    ELSE IF call_arg_size(ast_root(r.ast), func) > INT32_MAX
         THEN Dead(DIE(r.ast, "Huge arg parsed"))
    ELSE parse_expr_calls(
             set_last_node(ast_node_alloc(r.ast, 1),
                           [type |-> "CALL",
                            val |-> call_arg_size(ast_root(r.ast), func)]),
             r.z)

\* The for (;;) loop of parse_expr: one more argument, one more CALL.
parse_expr_calls(a, z0) ==
    IF a.died # "" THEN Dead(a)
    ELSE IF Len(a.nodes) = 0 THEN Dead(DIE(a, "Empty AST has no root"))
    ELSE parse_expr_call(parse_non_call_expr(a, eat_white(a.zsrc, z0)),
                         call_func_root(a), eat_white(a.zsrc, z0))

parse_expr(a, z0) ==
    IF a.died # "" THEN Dead(a)
    ELSE parse_expr_first(a, z0, eat_white(a.zsrc, z0))

\* The Ast that parse() allocates before it starts parsing.
new_ast(text) ==
    [zsrc |-> text,
     error |-> <<>>,
     zsrc_len |-> Len(text) + 8,
     nnodes_alloced |-> Len(text) + 8,
     nodes |-> <<>>,
     current_depth |-> 0,
     binding_depths |-> [t \in 0..(NTOKS - 1) |-> 0],
     died |-> ""]

\* parse() after parse_expr returned r: the test for unused bytes.
parse_end(r) ==
    IF r.ast.died # "" THEN r.ast
    ELSE IF r.z # NULL /\ CharAt(r.ast.zsrc, r.z) # NUL
         THEN DIE(r.ast, "Unused bytes after program source")
         ELSE r.ast

\* The value of parse(zname, zsrc): the Ast, with died set when a DIE ran.
parse_result(text) == parse_end(parse_expr(new_ast(text), 0))

\* ------------------------------------------------------------------------
\* Reading the postfix array (lambda.h).

\* nodes[idx]; the slots of the array past nnodes are the zeroed ones.
NodeAt(nodes, idx) == IF idx >= 0 /\ idx < Len(nodes) THEN nodes[idx + 1] ELSE ZeroNode

\* ast_unpack: the node's tag, and the callee root of a CALL or the token of
\* a VAR; any other tag is the fatal "bad type id".
ast_unpack(nodes, idx) ==
    LET n == NodeAt(nodes, idx)
    IN  IF n.type = "CALL" THEN [type |-> "CALL", val |-> idx - n.val - 1]
        ELSE IF n.type = "VAR" THEN [type |-> "VAR", val |-> n.val]
        ELSE [type |-> "DIE", val |-> 0]

ast_arg_idx(nodes, call_idx) == call_idx - 1

\* unparse: '(' callee ' ' arg ')' for a CALL, the letter for a VAR.  The
\* result is <<>> when a node with an invalid type id is met.
RECURSIVE unparse(_, _)
unparse(nodes, root) ==
    LET u == ast_unpack(nodes, root)
        f == unparse(nodes, u.val)
        g == unparse(nodes, ast_arg_idx(nodes, root))
    IN  IF u.type = "VAR" THEN <<u.val + LETTER_a>>
        ELSE IF u.type = "CALL" /\ u.val >= 0 /\ u.val < root
             THEN IF f = <<>> \/ g = <<>> THEN <<>>
                  ELSE <<LPAREN>> \o f \o <<SPC>> \o g \o <<RPAREN>>
        ELSE <<>>

\* ------------------------------------------------------------------------
\* The type solver (type.c).  A Type is [master, arg, ret]: slot indexes,
\* NULL for a null arg_t or ret_t; types is a function on the slots 0..size-1.

FreshType(t) == [master |-> t, arg |-> NULL, ret |-> NULL]

\* t->master_t = pmasterise(m): the path compression on the way back.
pmasterise_set(r, t) ==
    [types |-> [r.types EXCEPT ![t].master = r.idx], idx |-> r.idx]

\* pmasterise: the representative of t, and the table with t's chain compressed.
RECURSIVE pmasterise(_, _)
pmasterise(types, t) ==
    IF types[t].master = t THEN [types |-> types, idx |-> t]
    ELSE pmasterise_set(pmasterise(types, types[t].master), t)

masterise(types, idx) == pmasterise(types, idx)

RECURSIVE unify(_, _, _)

\* Both sides turned out to be function types: unify the components.
unify_components(types, a, b) == unify(unify(types, a.arg, b.arg), a.ret, b.ret)

\* unify once ia and ib are masterised.
unify_roots(types, ia, ib) ==
    IF types[ia].arg = NULL /\ types[ib].arg # NULL
    THEN masterise([[types EXCEPT ![ia] = [types[ib] EXCEPT !.master = ia]]
                       EXCEPT ![ib] = FreshType(ia)], ib).types
    ELSE IF types[ib].arg = NULL
         THEN masterise([types EXCEPT ![ib].master = ia], ib).types
    ELSE unify_components(masterise([types EXCEPT ![ib].master = ia], ib).types,
                          types[ia], types[ib])

unify_second(mb, ia) == unify_roots(mb.types, ia, mb.idx)

unify_first(ma, ib) == unify_second(masterise(ma.types, ib), ma.idx)

unify(types, ia, ib) ==
    IF ia = ib THEN types ELSE unify_first(masterise(types, ia), ib)

\* types[ifun].ret_t = types + masterise(types, iret).
coerce_set_ret(mr, ifun) == [mr.types EXCEPT ![ifun].ret = mr.idx]

\* types[ifun].arg_t = types + masterise(types, iarg), then the ret.
coerce_set_arg(ma, ifun, iret) ==
    coerce_set_ret(masterise([ma.types EXCEPT ![ifun].arg = ma.idx], iret), ifun)

\* The target already has a fun-type: leave it be, but unify its children.
coerce_unify_ret_skipped(types, fun, iarg, icall) == unify(types, fun.arg, iarg)
coerce_unify(types, fun, iarg, icall) ==
    unify(unify(types, fun.arg, iarg), fun.ret, icall)

\* coerce_to_fun_type once ifun is masterised into mf.
coerce_master(mf, iarg, icall) ==
    IF mf.types[mf.idx].arg # NULL
    THEN coerce_unify(mf.types, mf.types[mf.idx], iarg, icall)
    ELSE coerce_set_arg(masterise(mf.types, iarg), mf.idx, icall)

coerce_to_fun_type(types, nodes, ifun, icall) ==
    coerce_master(masterise(types, ifun), ast_arg_idx(nodes, icall), icall)

\* types[k] = *ttree->bindings[val]: a copy of the whole struct, master_t too.
copy_binding_unlinked(types, slot, first) ==
    [types EXCEPT ![slot] = [types[first] EXCEPT !.master = slot]]
copy_binding(types, slot, first) == [types EXCEPT ![slot] = types[first]]

\* unify call by call: the table one call of unify leaves up to its nested
\* calls, and the nested calls it goes on to make, in their order.
NoCalls(types) == [types |-> types, calls |-> <<>>]

\* if (ia == ib) return, on the indexes as they were passed.
unify_same_never(ia, ib) == FALSE
unify_same(ia, ib) == ia = ib

\* types[ib].master_t = types + ia, then the redundant masterise.
unify_link(types, ia, ib) == masterise([types EXCEPT ![ib].master = ia], ib).types

\* The body of unify once ia and ib are masterised.
unify_call_roots(types, ia, ib) ==
    IF types[ia].arg = NULL /\ types[ib].arg # NULL
    THEN NoCalls(masterise([[types EXCEPT ![ia] = [types[ib] EXCEPT !.master = ia]]
                               EXCEPT ![ib] = FreshType(ia)], ib).types)
    ELSE IF types[ib].arg = NULL
         THEN NoCalls(unify_link(types, ia, ib))
    ELSE [types |-> unify_link(types, ia, ib),
          calls |-> <<<<"unify", types[ia].arg, types[ib].arg>>,
                      <<"unify", types[ia].ret, types[ib].ret>>>>]

unify_call_second(mb, ia) == unify_call_roots(mb.types, ia, mb.idx)

unify_call_first(ma, ib) == unify_call_second(masterise(ma.types, ib), ma.idx)

unify_call_body(types, ia, ib) ==
    IF unify_same(ia, ib) THEN NoCalls(types)
    ELSE unify_call_first(masterise(types, ia), ib)

\* ------------------------------------------------------------------------
\* The type printer (type.c).

RECURSIVE count_calls(_, _)
count_calls(nodes, idx) ==
    IF ast_unpack(nodes, idx).type = "CALL"
    THEN 1 + count_calls(nodes, ast_unpack(nodes, idx).val) ELSE 0

RECURSIVE base_unpack(_, _)
base_unpack(nodes, idx) ==
    IF ast_unpack(nodes, idx).type = "CALL"
    THEN base_unpack(nodes, ast_unpack(nodes, idx).val) ELSE ast_unpack(nodes, idx)

\* print_typename: the letter of the variable at the bottom of the callee
\* chain, then one 'r' per CALL unwrapped; <<>> when ast_unpack dies.
print_typename_base(nodes, idx) ==
    IF base_unpack(nodes, idx).type # "VAR" THEN <<>>
    ELSE <<base_unpack(nodes, idx).val + LETTER_A>>
print_typename(nodes, idx) ==
    IF base_unpack(nodes, idx).type # "VAR" THEN <<>>
    ELSE <<base_unpack(nodes, idx).val + LETTER_A>>
         \o [i \in 1..count_calls(nodes, idx) |-> LETTER_r]

NewUnparser == [depth |-> 0, stack |-> <<>>, wrote_past |-> FALSE]

\* unparse_push: false when the type is on the stack; else the store at
\* stack[depth], which is past the array when depth >= MAX_DEPTH.
unparse_push_always(u, type) ==
    [ok |-> TRUE,
     unp |-> [u EXCEPT !.stack = Append(@, type), !.depth = @ + 1,
                       !.wrote_past = @ \/ u.depth >= MAX_DEPTH]]
unparse_push(u, type) ==
    IF \E i \in 1..u.depth : u.stack[i] = type
    THEN [ok |-> FALSE, unp |-> u]
    ELSE [ok |-> TRUE,
          unp |-> [u EXCEPT !.stack = Append(@, type), !.depth = @ + 1,
                            !.wrote_past = @ \/ u.depth >= MAX_DEPTH]]

unparse_pop(u) == [u EXCEPT !.depth = @ - 1, !.stack = SubSeq(@, 1, Len(@) - 1)]

\* ------------------------------------------------------------------------
\* Reference notions the properties are stated with: terms, their source
\* texts and their postfix encodings.  A term is <<"var", c>>,
\* <<"lam", c, body>> or <<"app", callee, arg>>, c the byte of a letter.

MaxLeaves == 3
MaxTermSize == 4
MaxCapLen == 10

AppNames == {LETTER_x, LETTER_y, LETTER_z}
BindNames == {LETTER_x, LETTER_y}

\* The application terms over names with at most max leaves.
LeafTerms(names, max) ==
    LET F[n \in 1..max] ==
            IF n = 1 THEN {<<"var", c>> : c \in names}
            ELSE UNION {{<<"app", f, a>> : f \in F[i], a \in F[n - i]} : i \in 1..(n - 1)}
    IN  UNION {F[n] : n \in 1..max}

AppTerms == LeafTerms(AppNames, MaxLeaves)

BindTermsOfSize[n \in 1..(MaxTermSize + 1)] ==
    IF n = 1 THEN {<<"var", c>> : c \in BindNames}
    ELSE {<<"lam", c, b>> : c \in BindNames, b \in BindTermsOfSize[n - 1]}
         \cup UNION {{<<"app", f, a>> : f \in BindTermsOfSize[i],
                                        a \in BindTermsOfSize[n - 1 - i]}
                     : i \in 1..(n - 2)}

BindTerms == UNION {BindTermsOfSize[n] : n \in 1..MaxTermSize}

\* The text of a term.  "strict" puts parentheses around every application,
\* "loose" only around an application in argument position, and "inner"
\* around every application but the outermost.  "spaced" writes a lambda
\* as `[x] body`, "tight" as `[x]body`, both with strict applications.
RECURSIVE Show(_, _)
Show(t, style) ==
    LET Atom(u) == IF u[1] = "app" /\ style # "strict"
                   THEN <<LPAREN>> \o Show(u, style) \o <<RPAREN>>
                   ELSE Show(u, style)
    IN  IF t[1] = "var" THEN <<t[2]>>
        ELSE IF t[1] = "lam"
             THEN <<LBRACK, t[2], RBRACK>>
                  \o (IF style = "spaced" THEN <<SPC>> ELSE <<>>)
                  \o Show(t[3], style)
        ELSE IF style = "loose" THEN Show(t[2], style) \o <<SPC>> \o Atom(t[3])
        ELSE IF style = "inner" THEN Atom(t[2]) \o <<SPC>> \o Atom(t[3])
        ELSE <<LPAREN>> \o Show(t[2], "strict") \o <<SPC>> \o Show(t[3], "strict")
             \o <<RPAREN>>

\* ShowLam: strict applications, lambdas spaced or tight.
RECURSIVE ShowLam(_, _)
ShowLam(t, spaced) ==
    IF t[1] = "var" THEN <<t[2]>>
    ELSE IF t[1] = "lam"
         THEN <<LBRACK, t[2], RBRACK>> \o (IF spaced THEN <<SPC>> ELSE <<>>)
              \o ShowLam(t[3], spaced)
    ELSE <<LPAREN>> \o ShowLam(t[2], spaced) \o <<SPC>> \o ShowLam(t[3], spaced)
         \o <<RPAREN>>

\* The postfix encoding of a term under the binders env (outermost first):
\* a bound name is the number of binders between it and its binder.
RECURSIVE Encode(_, _)
Encode(t, env) ==
    IF t[1] = "var"
    THEN LET hits == {i \in 1..Len(env) : env[i] = t[2]}
         IN  IF hits = {} THEN <<[type |-> "VAR", val |-> t[2] - LETTER_a]>>
             ELSE LET b == CHOOSE i \in hits : \A j \in hits : j <= i
                  IN  <<[type |-> "BOUND", val |-> Len(env) - b]>>
    ELSE IF t[1] = "lam"
         THEN Encode(t[3], Append(env, t[2]))
              \o <<[type |-> "VAR", val |-> t[2] - LETTER_a], [type |-> "LAMBDA", val |-> 0]>>
    ELSE LET g == Encode(t[3], env)
         IN  Encode(t[2], env) \o g \o <<[type |-> "CALL", val |-> Len(g)]>>

\* The number of slots of the subtree whose root is slot i, 0 when the
\* slots before i do not hold a subtree.
RECURSIVE SubtreeSize(_, _)
SubtreeSize(nodes, i) ==
    LET n == NodeAt(nodes, i)
    IN  IF i < 0 \/ i >= Len(nodes) THEN 0
        ELSE IF n.type \in {"VAR", "BOUND"} THEN 1
        ELSE IF n.type = "LAMBDA"
             THEN IF NodeAt(nodes, i - 1).type = "VAR" /\ SubtreeSize(nodes, i - 2) > 0
                  THEN 2 + SubtreeSize(nodes, i - 2) ELSE 0
        ELSE IF n.type = "CALL"
             THEN IF /\ n.val >= 1
                     /\ i - n.val - 1 >= 0
                     /\ SubtreeSize(nodes, i - 1) = n.val
                     /\ SubtreeSize(nodes, i - n.val - 1) > 0
                  THEN 1 + n.val + SubtreeSize(nodes, i - n.val - 1) ELSE 0
        ELSE 0

\* The application term that the subtree rooted at slot i denotes.
RECURSIVE Tree(_, _)
Tree(nodes, i) ==
    LET u == ast_unpack(nodes, i)
    IN  IF u.type = "VAR" THEN <<"var", u.val + LETTER_a>>
        ELSE IF u.type = "CALL" /\ u.val >= 0 /\ u.val < i
             THEN <<"app", Tree(nodes, u.val), Tree(nodes, ast_arg_idx(nodes, i))>>
        ELSE <<"bad">>

\* ------------------------------------------------------------------------
\* Input families.

Texts(alphabet, maxlen) == UNION {[1..n -> alphabet] : n \in 0..maxlen}

ParseAlphabet == {LETTER_x, LETTER_y, DIGIT1, LPAREN, RPAREN, LBRACK, RBRACK, SPC, DOLLAR}

CapAlphabet == {LETTER_x, DIGIT1, LBRACK}

AppStyles == {"loose", "inner", "strict"}

AppSources == {Show(t, st) : t \in AppTerms, st \in AppStyles}

BindSources == {ShowLam(t, sp) : t \in BindTerms, sp \in BOOLEAN}

MaxTypeLeaves == 4
MaxPrintLeaves == 4
MaxUnifyLeaves == 5
MaxArgs == 17

TypeSources == {Show(t, "loose") : t \in LeafTerms(AppNames, MaxTypeLeaves)}

PrintSources == {Show(t, "loose") : t \in LeafTerms(BindNames, MaxPrintLeaves)}

UnifySources == {Show(t, "loose") : t \in LeafTerms(BindNames, MaxUnifyLeaves)}

\* x applied to n arguments y: `x y y ... y`.
Chain(n) == <<LETTER_x>> \o [i \in 1..(2 * n) |-> IF i % 2 = 1 THEN SPC ELSE LETTER_y]

DeepSources == {Chain(n) : n \in 0..MaxArgs}

\* The term a text of these families was written from.
AppTermOf(text) == CHOOSE t \in AppTerms : \E st \in AppStyles : Show(t, st) = text

BindTermOf(text) == CHOOSE t \in BindTerms : \E sp \in BOOLEAN : ShowLam(t, sp) = text

\* ------------------------------------------------------------------------
\* The program as a state machine.

NoTree == [types |-> <<>>, bindings |-> <<>>, size |-> 0]

parse ==
    /\ pc = "start"
    /\ ast' = parse_result(zsrc)
    /\ pc' = IF ast'.died # "" THEN "died" ELSE "parsed"
    /\ UNCHANGED <<zsrc, ttree, k, unp, todo, oot, out>>

\* act_type up to the call of solve_types: ast_postfix and the fresh table.
build_type_tree ==
    /\ pc = "parsed"
    /\ IF Len(ast.nodes) = 0
       THEN /\ pc' = "died"
            /\ UNCHANGED <<ttree, k>>
       ELSE /\ pc' = "solve"
            /\ ttree' = [types |-> [t \in 0..(Len(ast.nodes) - 1) |-> FreshType(t)],
                         bindings |-> [t \in 0..(MAX_TOKS - 1) |-> NULL],
                         size |-> Len(ast.nodes)]
            /\ k' = 0
    /\ UNCHANGED <<zsrc, ast, unp, todo, oot, out>>

\* One round of the loop of solve_types; after the last one solve_types and
\* build_type_tree return into the loop of act_type.
solve_types ==
    /\ pc = "solve"
    /\ LET u == ast_unpack(ast.nodes, k)
           next == IF k + 1 < ttree.size THEN "solve" ELSE "print"
       IN  IF u.type = "VAR"
           THEN IF UnsignedGt(u.val, MAX_TOKS)
                THEN pc' = "died" /\ UNCHANGED <<ttree, k>>
                ELSE IF u.val = MAX_TOKS
                     THEN pc' = "ub" /\ UNCHANGED <<ttree, k>>
                ELSE /\ ttree' =
                          IF ttree.bindings[u.val] # NULL
                          THEN [ttree EXCEPT
                                   !.types = copy_binding(@, k, ttree.bindings[u.val])]
                          ELSE [ttree EXCEPT !.bindings[u.val] = k]
                     /\ pc' = next
                     /\ k' = IF next = "print" THEN 0 ELSE k + 1
           ELSE IF u.type = "CALL"
                THEN /\ ttree' = [ttree EXCEPT
                                     !.types = coerce_to_fun_type(@, ast.nodes, u.val, k)]
                     /\ pc' = next
                     /\ k' = IF next = "print" THEN 0 ELSE k + 1
           ELSE pc' = "died" /\ UNCHANGED <<ttree, k>>
    /\ UNCHANGED <<zsrc, ast, unp, todo, oot, out>>

\* The round of solve_types at slot k is a CALL whose callee already has a
\* fun-type, so that coerce_to_fun_type unifies its children.
CalleeHasFunType ==
    /\ ast_unpack(ast.nodes, k).type = "CALL"
    /\ masterise(ttree.types, ast_unpack(ast.nodes, k).val).types[
           masterise(ttree.types, ast_unpack(ast.nodes, k).val).idx].arg # NULL

\* Every other round of solve_types, taken in one step.
solve_types_round ==
    /\ pc = "solve"
    /\ ~CalleeHasFunType
    /\ solve_types

\* coerce_to_fun_type up to its two calls of unify.
coerce_to_fun_type_unify ==
    /\ pc = "solve"
    /\ CalleeHasFunType
    /\ LET mf == masterise(ttree.types, ast_unpack(ast.nodes, k).val)
       IN  /\ ttree' = [ttree EXCEPT !.types = mf.types]
           /\ todo' = <<<<"unify", mf.types[mf.idx].arg, ast_arg_idx(ast.nodes, k)>>,
                        <<"unify", mf.types[mf.idx].ret, k>>>>
    /\ pc' = "unify"
    /\ UNCHANGED <<zsrc, ast, k, unp, oot, out>>

\* How many calls of unify can be pending before the call stack is taken
\* to be exhausted.
MaxCalls == 6

\* One call of unify up to its nested calls, or to its return.
unify_call ==
    /\ pc = "unify"
    /\ todo # <<>>
    /\ LET u == unify_call_body(ttree.types, Head(todo)[2], Head(todo)[3])
       IN  /\ ttree' = [ttree EXCEPT !.types = u.types]
           /\ IF Len(u.calls) + Len(todo) - 1 > MaxCalls
              THEN pc' = "overflow" /\ UNCHANGED todo
              ELSE todo' = u.calls \o Tail(todo) /\ UNCHANGED pc
    /\ UNCHANGED <<zsrc, ast, k, unp, oot, out>>

\* The last call of unify returned: coerce_to_fun_type returns into the
\* loop of solve_types.
coerce_to_fun_type_return ==
    /\ pc = "unify"
    /\ todo = <<>>
    /\ pc' = IF k + 1 < ttree.size THEN "solve" ELSE "print"
    /\ k' = IF k + 1 < ttree.size THEN k + 1 ELSE 0
    /\ UNCHANGED <<zsrc, ast, ttree, unp, todo, oot, out>>

\* The loop of act_type: unparse_type for slot k, or the end of the run.
act_type ==
    /\ pc = "print"
    /\ IF k < ttree.size
       THEN /\ pc' = "unparse"
            /\ unp' = NewUnparser
            /\ todo' = <<<<"type", k>>>>
            /\ oot' = <<>>
       ELSE /\ pc' = "done"
            /\ UNCHANGED <<unp, todo, oot>>
    /\ UNCHANGED <<zsrc, ast, ttree, k, out>>

\* How far past its array the printer's stack can be written before the
\* write leaves the stack frame.
MaxPast == 2

\* A call of unparse_type_ up to its first nested call, or to its return.
\* A push at depth >= MAX_DEPTH stores past the array: the run goes on
\* with the entry stored, or crashes.
unparse_type_ ==
    /\ pc = "unparse"
    /\ todo # <<>>
    /\ Head(todo)[1] = "type"
    /\ LET m == masterise(ttree.types, Head(todo)[2])
           ty == m.types[m.idx]
           name == print_typename(ast.nodes, m.idx)
           push == unparse_push(unp, m.idx)
       IN  /\ ttree' = [ttree EXCEPT !.types = m.types]
           /\ IF name = <<>>
              THEN pc' = "died" /\ UNCHANGED <<unp, todo, oot>>
              ELSE IF ty.arg = NULL \/ ~push.ok
                   THEN /\ oot' = oot \o name
                        /\ todo' = Tail(todo)
                        /\ UNCHANGED <<pc, unp>>
              ELSE \E outcome \in
                       IF push.unp.depth <= MAX_DEPTH THEN {"defined"}
                       ELSE IF push.unp.depth <= MAX_DEPTH + MaxPast
                            THEN {"silent", "crash"} ELSE {"crash"} :
                       /\ unp' = push.unp
                       /\ IF outcome = "crash"
                          THEN pc' = "crashed" /\ UNCHANGED <<todo, oot>>
                          ELSE /\ oot' = oot \o name \o <<EQUALS, LPAREN>>
                               /\ todo' = <<<<"type", ty.arg>>, <<"space">>,
                                            <<"type", ty.ret>>, <<"close">>>>
                                          \o Tail(todo)
                               /\ UNCHANGED pc
    /\ UNCHANGED <<zsrc, ast, k, out>>

\* fputc(' ', oot) between the arg and the ret of a function type.
unparse_space ==
    /\ pc = "unparse"
    /\ todo # <<>>
    /\ Head(todo)[1] = "space"
    /\ oot' = Append(oot, SPC)
    /\ todo' = Tail(todo)
    /\ UNCHANGED <<zsrc, pc, ast, ttree, k, unp, out>>

\* fputc(')', oot) and unparse_pop at the end of a function type.
unparse_close ==
    /\ pc = "unparse"
    /\ todo # <<>>
    /\ Head(todo)[1] = "close"
    /\ oot' = Append(oot, RPAREN)
    /\ unp' = unparse_pop(unp)
    /\ todo' = Tail(todo)
    /\ UNCHANGED <<zsrc, pc, ast, ttree, k, out>>

\* unparse_type returned: the line break, and the next round of act_type.
act_type_newline ==
    /\ pc = "unparse"
    /\ todo = <<>>
    /\ out' = Append(out, oot)
    /\ k' = k + 1
    /\ pc' = "print"
    /\ UNCHANGED <<zsrc, ast, ttree, unp, todo, oot>>

InitOn(sources) ==
    /\ zsrc \in sources
    /\ pc = "start"
    /\ ast = new_ast(zsrc)
    /\ ttree = NoTree
    /\ k = 0
    /\ unp = NewUnparser
    /\ todo = <<>>
    /\ oot = <<>>
    /\ out = <<>>

InitParse == InitOn(Texts(ParseAlphabet, MaxLen))
InitCap == InitOn(Texts(CapAlphabet, MaxCapLen))
InitApp == InitOn(AppSources)
InitBind == InitOn(BindSources)
Init == InitOn(TypeSources)
InitPrint == InitOn(PrintSources)
InitUnify == InitOn(UnifySources)
InitDeep == InitOn(DeepSources)

NextParse == parse

Next ==
    \/ parse
    \/ build_type_tree
    \/ solve_types
    \/ act_type
    \/ unparse_type_
    \/ unparse_space
    \/ unparse_close
    \/ act_type_newline

\* The parser on every short text, on texts long enough to fill the node
\* array, on application-only programs and on programs with lambdas.
SpecParse == InitParse /\ [][NextParse]_vars
SpecCap == InitCap /\ [][NextParse]_vars
SpecApp == InitApp /\ [][NextParse]_vars
SpecBind == InitBind /\ [][NextParse]_vars

\* The whole run, parse() then act_type(), on application-only programs and
\* on one variable applied to many arguments.  The run is one sequential
\* process: it takes its next step as long as it has one.
Spec == Init /\ [][Next]_vars
SpecDeep == InitDeep /\ [][Next]_vars

\* The printer alone: once act_type has its solved table, its loop keeps
\* stepping until it returns or the process ends.
Printer ==
    \/ act_type
    \/ unparse_type_
    \/ unparse_space
    \/ unparse_close
    \/ act_type_newline

LiveSpec == InitPrint /\ [][Next]_vars /\ WF_vars(Printer)

\* The run up to the return of solve_types, with unify taken call by call.
NextUnify ==
    \/ parse
    \/ build_type_tree
    \/ solve_types_round
    \/ coerce_to_fun_type_unify
    \/ unify_call
    \/ coerce_to_fun_type_return

\* The calls of unify under one coerce_to_fun_type: each runs once it is
\* called, and the function returns once the last has returned.
Unifier ==
    \/ unify_call
    \/ coerce_to_fun_type_return

SpecUnify == InitUnify /\ [][NextUnify]_vars /\ WF_vars(Unifier)

Returned == pc = "parsed"

\* ------------------------------------------------------------------------
\* C1: whenever parse() returns a non-empty AST, with or without syntax
\* errors, the nodes are one well-formed postfix tree: every CALL at i has
\* arg_size >= 1 and a callee root i - arg_size - 1 >= 0, the subtree rooted
\* at i - 1 fills exactly the arg_size slots before i, and the subtree
\* rooted at the last node spans all the nodes.
C1_PostfixLayout ==
    (Returned /\ Len(ast.nodes) > 0) =>
        /\ \A i \in 0..(Len(ast.nodes) - 1) :
              NodeAt(ast.nodes, i).type = "CALL" =>
                  /\ NodeAt(ast.nodes, i).val >= 1
                  /\ i - NodeAt(ast.nodes, i).val - 1 >= 0
                  /\ SubtreeSize(ast.nodes, i - 1) = NodeAt(ast.nodes, i).val
                  /\ SubtreeSize(ast.nodes, i - NodeAt(ast.nodes, i).val - 1) > 0
        /\ SubtreeSize(ast.nodes, Len(ast.nodes) - 1) = Len(ast.nodes)

\* A returned AST with a recorded syntax error and a CALL whose argument is
\* itself a subtree of three slots.
C1_Witness ==
    /\ Returned
    /\ ast.error # <<>>
    /\ \E i \in 0..(Len(ast.nodes) - 1) :
          NodeAt(ast.nodes, i).type = "CALL" /\ NodeAt(ast.nodes, i).val = 3

\* C2: application is left-associative: a run e1 e2 ... en, however its
\* left-nested applications are parenthesised, parses to the tree
\* ((e1 e2) ... en), to the very nodes that the fully parenthesised text
\* parses to, and to other nodes than any differently shaped program.
C2_LeftAssociative ==
    (pc # "start") =>
        LET t == AppTermOf(zsrc)
        IN  /\ Returned
            /\ ast.error = <<>>
            /\ Tree(ast.nodes, Len(ast.nodes) - 1) = t
            /\ ast.nodes = parse_result(Show(t, "inner")).nodes
            /\ \A t2 \in AppTerms \ {t} :
                  ast.nodes # parse_result(Show(t2, "loose")).nodes

\* `x y z` parsed into the nodes of (x y) z.
C2_Witness ==
    /\ Returned
    /\ zsrc = <<LETTER_x, SPC, LETTER_y, SPC, LETTER_z>>
    /\ ast.nodes = <<[type |-> "VAR", val |-> 23], [type |-> "VAR", val |-> 24],
                     [type |-> "CALL", val |-> 1], [type |-> "VAR", val |-> 25],
                     [type |-> "CALL", val |-> 1]>>

C4_BindingResolution ==
    (pc # "start") =>
        /\ Returned
        /\ ast.nodes = Encode(BindTermOf(zsrc), <<>>)

\* C5: a text that starts with `(x` and never closes the parenthesis makes
\* parse() record at least one syntax error and return an AST; no DIE ends
\* the run.
C5_ErrorAccumulation ==
    (/\ pc # "start"
     /\ Len(zsrc) >= 2
     /\ zsrc[1] = LPAREN
     /\ zsrc[2] = LETTER_x
     /\ \A i \in 1..Len(zsrc) : zsrc[i] # RPAREN) =>
        /\ Returned
        /\ Len(ast.error) >= 1
        /\ Len(ast.nodes) >= 1

\* C8: ast_node_alloc never reaches its capacity-exceeded DIE.
C8_CapacitySufficient ==
    ast.died # "BUG: using more Ast nodes than are alloced"

\* ------------------------------------------------------------------------
\* Reading a type table: the representative a slot resolves to through the
\* master chain, and the resolved components of its function type.

RECURSIVE Find(_, _)
Find(types, t) == IF types[t].master = t THEN t ELSE Find(types, types[t].master)

ResolvedArg(types, t) ==
    IF types[Find(types, t)].arg = NULL THEN NULL
    ELSE Find(types, types[Find(types, t)].arg)

ResolvedRet(types, t) ==
    IF types[Find(types, t)].ret = NULL THEN NULL
    ELSE Find(types, types[Find(types, t)].ret)

Slots == 0..(ttree.size - 1)

\* Slot i was passed by the loop of solve_types.
Solved(i) == (pc = "solve" /\ i < k) \/ pc \in {"print", "unparse", "done"}

IsVar(i) == NodeAt(ast.nodes, i).type = "VAR"
IsCall(i) == NodeAt(ast.nodes, i).type = "CALL"

\* C6: once solve_types has passed two occurrences of a free variable name,
\* both resolve to the same representative, and so to the same resolved arg
\* and ret, also when the first occurrence got its function structure only
\* after the later one copied it.
C6_UnificationSound ==
    \A i \in Slots, j \in Slots :
        (/\ Solved(i)
         /\ Solved(j)
         /\ IsVar(i)
         /\ IsVar(j)
         /\ NodeAt(ast.nodes, i).val = NodeAt(ast.nodes, j).val) =>
            /\ Find(ttree.types, i) = Find(ttree.types, j)
            /\ ResolvedArg(ttree.types, i) = ResolvedArg(ttree.types, j)
            /\ ResolvedRet(ttree.types, i) = ResolvedRet(ttree.types, j)

\* A solved table in which a later occurrence copied the first one while it
\* had no structure, and the name's type became a function type afterwards.
C6_Witness ==
    /\ pc = "done"
    /\ \E i \in Slots, j \in Slots :
          /\ i < j
          /\ IsVar(i)
          /\ IsVar(j)
          /\ NodeAt(ast.nodes, i).val = NodeAt(ast.nodes, j).val
          /\ ttree.types[j].arg = NULL
          /\ ResolvedArg(ttree.types, i) # NULL

\* C10: once solve_types has passed a CALL at c, the representative of its
\* callee root is a function type whose arg resolves as slot c - 1 does and
\* whose ret resolves as slot c does, and no later merge undoes that.
C10_CallTyping ==
    \A c \in Slots :
        (Solved(c) /\ IsCall(c)) =>
            LET fn == c - NodeAt(ast.nodes, c).val - 1
            IN  /\ ResolvedArg(ttree.types, fn) # NULL
                /\ ResolvedArg(ttree.types, fn) = Find(ttree.types, c - 1)
                /\ ResolvedRet(ttree.types, fn) = Find(ttree.types, c)

\* A solved table in which, after a CALL was typed, its callee, its argument
\* and its result were all merged into other classes.
C10_Witness ==
    /\ pc = "done"
    /\ \E c \in Slots :
          /\ IsCall(c)
          /\ Find(ttree.types, c - NodeAt(ast.nodes, c).val - 1)
                 # c - NodeAt(ast.nodes, c).val - 1
          /\ Find(ttree.types, c - 1) # c - 1
          /\ Find(ttree.types, c) # c

\* The line the printer owes for slot t: the name of its representative,
\* expanded as =(arg ret) unless it has no structure or is on the path.
RECURSIVE ExpectedType(_, _, _, _)
ExpectedType(types, nodes, t, path) ==
    LET rep == Find(types, t)
    IN  IF types[rep].arg = NULL \/ rep \in path
        THEN print_typename(nodes, rep)
        ELSE print_typename(nodes, rep) \o <<EQUALS, LPAREN>>
             \o ExpectedType(types, nodes, types[rep].arg, path \cup {rep})
             \o <<SPC>>
             \o ExpectedType(types, nodes, types[rep].ret, path \cup {rep})
             \o <<RPAREN>>

TextXX == <<LETTER_x, SPC, LETTER_x>>

\* X=(X Xr)
LineXX ==
    <<LETTER_A + 23, EQUALS, LPAREN, LETTER_A + 23, SPC, LETTER_A + 23, LETTER_r, RPAREN>>

\* C7: the printer terminates on every solved table, the self-referential
\* ones included: once the table is solved the printer prints every line
\* and ends, each line expands a representative only where it is not
\* already on the path, and the line of x in `x x` is X=(X Xr).
C7_PrinterTerminates ==
    /\ [](/\ \A i \in 1..Len(out) :
                out[i] = ExpectedType(ttree.types, ast.nodes, i - 1, {})
          /\ (zsrc = TextXX /\ Len(out) >= 1) => out[1] = LineXX
          /\ unp.depth <= ttree.size)
    /\ (pc = "print" /\ k = 0) ~> (pc = "done" /\ Len(out) = Len(ast.nodes))

\* The run on `x x` ended with X=(X Xr) as its first line.
C7_Witness ==
    /\ pc = "done"
    /\ zsrc = TextXX
    /\ out[1] = LineXX
    /\ ResolvedArg(ttree.types, 0) = Find(ttree.types, 0)

\* C9: the printer's stack never holds more than MAX_DEPTH entries and is
\* never written past its end; a type nested deeper ends the run in a fatal
\* error instead.
C9_StackGuarded ==
    /\ unp.depth <= MAX_DEPTH
    /\ ~unp.wrote_past

\* The LAMBDA nodes whose body holds slot i.
EnclosingLambdas(nodes, i) ==
    {j \in 0..(Len(nodes) - 1) :
        /\ NodeAt(nodes, j).type = "LAMBDA"
        /\ j - 1 - SubtreeSize(nodes, j - 2) <= i
        /\ i <= j - 2}

\* C11: parse_lambda leaves current_depth and binding_depths as it found
\* them, whatever its outcome: when parse() returns, current_depth is 0,
\* every name is unbound, and in a text without digits, where every BOUND
\* node comes from a varname, every BOUND node of depth d lies in the bodies
\* of more than d lambdas, so that none is owed to a failed lambda.
C11_BindingRestored ==
    Returned =>
        /\ ast.current_depth = 0
        /\ \A t \in 0..(NTOKS - 1) : ast.binding_depths[t] = 0
        /\ (\A p \in 1..Len(zsrc) : idx_from_digit(zsrc[p]) >= 10) =>
              \A i \in 0..(Len(ast.nodes) - 1) :
                  NodeAt(ast.nodes, i).type = "BOUND" =>
                      Cardinality(EnclosingLambdas(ast.nodes, i))
                          > NodeAt(ast.nodes, i).val

\* C12: every VAR node that parse() leaves in the AST, the bound-name slot
\* before each LAMBDA included, has a token of the alphabet 0..25, also
\* when a lambda's binder has no varname.
C12_TokenRange ==
    Returned =>
        \A i \in 0..(Len(ast.nodes) - 1) :
            NodeAt(ast.nodes, i).type = "VAR" =>
                NodeAt(ast.nodes, i).val \in 0..(NTOKS - 1)

\* The slot n steps up the master chain of t.
RECURSIVE MasterAt(_, _, _)
MasterAt(types, t, n) == IF n = 0 THEN t ELSE MasterAt(types, types[t].master, n - 1)

\* The master chain of every slot stays in the table and reaches, in fewer
\* steps than there are slots, a slot that is its own master.
ChainsEnd(types, size) ==
    \A t \in 0..(size - 1) :
        \E n \in 0..(size - 1) :
            /\ \A m \in 0..n : MasterAt(types, t, m) \in 0..(size - 1)
            /\ types[MasterAt(types, t, n)].master = MasterAt(types, t, n)

\* C13: every call of unify the run makes returns, those on tables with
\* self-referential function types included, and in every state of the
\* run the master chain of every slot is acyclic and ends at a slot that
\* is its own master.
C13_UnifyTerminates ==
    /\ [](ChainsEnd(ttree.types, ttree.size) /\ pc # "overflow")
    /\ (pc = "unify") ~> (pc \in {"solve", "print"})

\* unify was called on two slots of one class whose representative is a
\* function type that takes itself as its argument.
C13_Witness ==
    /\ pc = "unify"
    /\ todo # <<>>
    /\ Head(todo)[2] # Head(todo)[3]
    /\ Find(ttree.types, Head(todo)[2]) = Find(ttree.types, Head(todo)[3])
    /\ ResolvedArg(ttree.types, Head(todo)[2]) = Find(ttree.types, Head(todo)[2])

\* C14: once solve_types has passed two slots whose display names, the
\* letter of the base variable and one r per CALL unwrapped along the
\* callee chain, are equal, they resolve to the same representative; so no
\* two representatives are printed under one name.
C14_NamesIdentifyClasses ==
    \A i \in Slots, j \in Slots :
        (/\ i < j
         /\ Solved(j)
         /\ print_typename(ast.nodes, i) = print_typename(ast.nodes, j)) =>
            Find(ttree.types, i) = Find(ttree.types, j)

\* A solved table with two CALL slots of one name and two representatives
\* that are function types under different names.
C14_Witness ==
    /\ pc = "done"
    /\ \E i \in Slots, j \in Slots :
          /\ i # j
          /\ IsCall(i)
          /\ IsCall(j)
          /\ print_typename(ast.nodes, i) = print_typename(ast.nodes, j)
    /\ \E i \in Slots, j \in Slots :
          /\ Find(ttree.types, i) = i
          /\ Find(ttree.types, j) = j
          /\ i # j
          /\ ttree.types[i].arg # NULL
          /\ ttree.types[j].arg # NULL

====
